---- MODULE Spec2Model ----
(***************************************************************************)
(* Graph attention layers of src/nets/gat.py: GATConv (self-loop           *)
(* adjustment, segmented softmax of the attention scores, the instance     *)
(* cache _alpha), the stacked models built on it and the factory           *)
(* create_gat.                                                             *)
(*                                                                         *)
(* Three specifications:                                                   *)
(*   Spec        one forward call at a time on concrete edge lists         *)
(*               (StandGAT2.forward and a direct GATConv.forward call);    *)
(*   SpecCalls   two callers stepping through GATConv.forward on one layer *)
(*               instance, statement by statement;                         *)
(*   SpecFactory create_gat and the constructors of the stacked models.    *)
(*                                                                         *)
(* Real numbers: an attention coefficient is the exact fraction <<n, d>>;  *)
(* exp is taken to the base 32, so that exp(0.2 * k) = 2^k is an integer   *)
(* power of two (softmax to another base is softmax at another             *)
(* temperature: positivity, monotonicity and the normalisation are the     *)
(* same).  The 1e-16 that the library adds to the denominator is below     *)
(* the tolerance the sums are compared with and is left out.               *)
(***************************************************************************)
EXTENDS Integers, Sequences, FiniteSets, TLC

\* Python's None is the empty tuple; an optional value v is the 1-tuple <<v>>
None == <<>>
Some(v) == <<v>>

\* ------------------------------------------------------------- bounds
MaxNodes == 3
MaxEdges == 2
MaxSeed == 1
MaxRank == 3
MaxLayer == 5
MaxHid == 17
NFeat == 3
NClass == 2

\* ------------------------------------------------------------- graph state
VARIABLES
    adj,          \* the caller's edge list: a sequence of <<source, destination>>
    nrows,        \* rows of the caller's feature matrix x
    pc,           \* "start" | "conv1" | "conv2" | "direct"
    edge_index,   \* edge list returned by the last forward call
    num_nodes,    \* num_nodes of the last self-loop adjustment (None: not run)
    loops_on,     \* is_add_self_loops of the last forward call
    index,        \* the index argument message() received (one entry per edge)
    alpha,        \* coefficients message() stored in _alpha, per edge, per head
    prev_edges    \* edge list the previous layer handed to its attention step

gvars == <<adj, nrows, pc, edge_index, num_nodes, loops_on, index, alpha, prev_edges>>

\* ------------------------------------------------------------- layer instance and callers
VARIABLES
    dropout,      \* the layer's dropout probability, in percent
    _alpha,       \* the instance attribute self._alpha: None or Some(coefficients)
    cpc,          \* per caller: where its forward call stands
    x,            \* per caller: the features argument (ranks of its tensors)
    raw,          \* per caller: the return_attention_weights argument
    projected,    \* per caller: the call has run a linear projection
    local_alpha,  \* per caller: the local variable alpha of forward (line 160)
    ret,          \* per caller: the second component of the returned pair
    overlap       \* per caller: another call ran on the instance during this call

cvars == <<dropout, _alpha, cpc, x, raw, projected, local_alpha, ret, overlap>>

\* ------------------------------------------------------------- factory state
VARIABLES
    nlayer,       \* the depth argument
    nhid,         \* the nhid argument
    nembed,       \* the nembed argument
    fpc,          \* "start" | "returned" | "raised"
    model         \* the constructed model, None before and when there is none

fvars == <<nlayer, nhid, nembed, fpc, model>>

vars == <<gvars, cvars, fvars>>

Min(a, b) == IF a <= b THEN a ELSE b

RECURSIVE Pow2(_)
Pow2(k) == IF k <= 0 THEN 1 ELSE 2 * Pow2(k - 1)

RECURSIVE SumOver(_, _)
\* sum of f[k] over the finite set S of arguments
SumOver(f, S) ==
    IF S = {} THEN 0
    ELSE LET k == CHOOSE k \in S : TRUE IN f[k] + SumOver(f, S \ {k})

RECURSIVE MaxOver(_, _)
MaxOver(f, S) ==
    LET k == CHOOSE k \in S : TRUE IN
    IF S = {k} THEN f[k]
    ELSE LET m == MaxOver(f, S \ {k}) IN IF f[k] >= m THEN f[k] ELSE m

Pairs(n) == (0 .. n - 1) \X (0 .. n - 1)

EdgeLists(n) == UNION {[1 .. len -> Pairs(n)] : len \in 0 .. MaxEdges}

\* the path graph 0 -> 1 -> 2 -> 3 of the end-to-end scenario
PathEdges == <<(<<0, 1>>), (<<1, 2>>), (<<2, 3>>)>>
PathNodes == Len(PathEdges) + 1

\* ------------------------------------------------------------- GATConv
\* StandGAT2: num_head, and the heads of conv2; GATConv's default heads
num_head == 4
conv2_heads == 1
default_heads == 1

\* (x_l * att_l).sum(dim=-1) and (x_r * att_r).sum(dim=-1): one score term per
\* node and head, a function of the features; xs picks the features.
alpha_l(xs, i, h) == ((i * (xs + 1) + h) % 3) - 1
alpha_r(xs, i, h) == ((i + xs + 2 * h) % 3) - 1

\* F.leaky_relu(alpha, negative_slope = 0.2), times 5 to stay in the integers
leaky_relu5(a) == IF a >= 0 THEN 5 * a ELSE a

\* a remove_self_loops that strips nothing
remove_self_loops_keep(ei) == ei

\* torch_geometric.utils.remove_self_loops
remove_self_loops(ei) == SelectSeq(ei, LAMBDA e : e[1] # e[2])

\* torch_geometric.utils.add_self_loops
add_self_loops(ei, n) == ei \o [i \in 1 .. n |-> <<i - 1, i - 1>>]

\* num_nodes of forward(): rows of x_l, min with rows of x_r, size overrides
NumNodes(n_l, n_r, size) ==
    LET a == n_l
        b == IF n_r # None THEN Min(a, n_r[1]) ELSE a
    IN  IF size # None THEN Min(size[1], size[2]) ELSE b

\* the edge list forward() hands to propagate()
AdjustSelfLoops(ei, is_add_self_loops, n) ==
    IF is_add_self_loops THEN add_self_loops(remove_self_loops(ei), n) ELSE ei

\* a propagate that groups by the source row, edge_index[0]
MessageIndexSource(ei) == [k \in DOMAIN ei |-> ei[k][1]]

\* propagate(), flow source_to_target: message() gets index = edge_index[1]
MessageIndex(ei) == [k \in DOMAIN ei |-> ei[k][2]]

\* alpha = alpha_j if alpha_i is None else alpha_j + alpha_i; leaky_relu
RawScore(ei, xs, h, has_r) ==
    [k \in DOMAIN ei |->
        leaky_relu5(alpha_l(xs, ei[k][1], h)
                    + (IF has_r THEN alpha_r(xs, ei[k][2], h) ELSE 0))]

\* largest spread of two scores of one group, in leaky_relu5 units
ScoreSpan == 5 * 2 + 2

\* a dense softmax: one group of all the edges, whatever their index
softmax_dense(src, idx) ==
    [k \in DOMAIN src |->
        LET grp == DOMAIN idx
            mx  == MaxOver(src, grp)
            ex  == [j \in grp |-> Pow2(ScoreSpan + src[j] - mx)]
        IN  <<ex[k], SumOver(ex, grp)>>]

\* torch_geometric.utils.softmax(src, index): per group of equal index,
\* exp(src - max of the group) / sum of the group
softmax(src, idx) ==
    [k \in DOMAIN src |->
        LET grp == {j \in DOMAIN idx : idx[j] = idx[k]}
            mx  == MaxOver(src, grp)
            ex  == [j \in grp |-> Pow2(ScoreSpan + src[j] - mx)]
        IN  <<ex[k], SumOver(ex, grp)>>]

\* message(): the coefficients stored in self._alpha, per edge and head
message(ei, idx, xs, H, has_r) ==
    LET sm == [h \in 1 .. H |-> softmax(RawScore(ei, xs, h, has_r), idx)]
    IN  [k \in DOMAIN ei |-> [h \in 1 .. H |-> sm[h][k]]]

\* ------------------------------------------------------------- Spec
\* one GATConv.forward on the current edge list
Forward(n_l, n_r, size, xs, H, is_add_self_loops, next_pc) ==
    LET n  == NumNodes(n_l, n_r, size)
        ei == AdjustSelfLoops(edge_index, is_add_self_loops, n)
        ix == MessageIndex(ei)
    IN  /\ prev_edges' = (IF pc = "start" THEN <<>> ELSE edge_index)
        /\ edge_index' = ei
        /\ num_nodes' = (IF is_add_self_loops THEN Some(n) ELSE None)
        /\ loops_on' = is_add_self_loops
        /\ index' = ix
        /\ alpha' = message(ei, ix, xs, H, n_r # None)
        /\ pc' = next_pc
        /\ UNCHANGED <<adj, nrows, cvars, fvars>>

\* StandGAT2.forward, first layer
Conv1 ==
    /\ pc = "start"
    /\ \E xs \in 0 .. MaxSeed :
          Forward(nrows, Some(nrows), None, xs, num_head, TRUE, "conv1")

\* StandGAT2.forward, second layer on the edge list the first returned
Conv2 ==
    /\ pc = "conv1"
    /\ \E xs \in 0 .. MaxSeed :
          Forward(nrows, Some(nrows), None, xs, conv2_heads, TRUE, "conv2")

\* the size argument a call may pass with features of n_l and n_r rows:
\* None, or the pair of the two sides' node counts (propagate checks it
\* against the features it has; it has none for an absent target side)
Sizes(n_l, n_r) ==
    {None} \cup {<<n_l, s1>> : s1 \in (IF n_r # None THEN {n_r[1]} ELSE nrows .. MaxNodes)}

\* GATConv.forward called directly: x a tensor or a pair, size given or not
DirectForward ==
    /\ pc = "start"
    /\ nrows <= MaxNodes
    /\ \E n_l \in nrows .. MaxNodes,
          n_r \in {None} \cup {Some(n) : n \in nrows .. MaxNodes},
          xs \in 0 .. MaxSeed, flag \in BOOLEAN :
          \E size \in Sizes(n_l, n_r) :
             Forward(n_l, n_r, size, xs, default_heads, flag, "direct")

\* the scenario of the path graph: a tensor x of PathNodes rows, 1 head
PathForward ==
    /\ pc = "start"
    /\ adj = PathEdges
    /\ nrows = PathNodes
    /\ \E xs \in 0 .. MaxSeed :
          Forward(nrows, Some(nrows), None, xs, default_heads, TRUE, "direct")

GNext == Conv1 \/ Conv2 \/ DirectForward \/ PathForward

\* the caller's graph and features; the layer instance and the factory at rest
Init ==
    /\ \/ /\ nrows \in 1 .. MaxNodes
          /\ adj \in EdgeLists(nrows)
       \/ /\ nrows = PathNodes
          /\ adj = PathEdges
    /\ pc = "start"
    /\ edge_index = adj
    /\ num_nodes = None
    /\ loops_on = FALSE
    /\ index = <<>>
    /\ alpha = <<>>
    /\ prev_edges = <<>>
    /\ dropout = 0
    /\ _alpha = None
    /\ cpc = [c \in {1, 2} |-> "idle"]
    /\ x = [c \in {1, 2} |-> [kind |-> "none", rank |-> <<>>]]
    /\ raw = [c \in {1, 2} |-> None]
    /\ projected = [c \in {1, 2} |-> FALSE]
    /\ local_alpha = [c \in {1, 2} |-> None]
    /\ ret = [c \in {1, 2} |-> None]
    /\ overlap = [c \in {1, 2} |-> FALSE]
    /\ nlayer = 1
    /\ nhid = 1
    /\ nembed = 1
    /\ fpc = "start"
    /\ model = None

Next == GNext
Spec == Init /\ [][Next]_vars

\* ------------------------------------------------------------- SpecCalls
Callers == {1, 2}
Other(c) == 3 - c

\* the ranks x.dim() of the feature tensors a caller may pass: 2, and the
\* batched ranks above it (the assert treats a rank below 2 as one above)
Ranks == 2 .. MaxRank

\* x: a Tensor, or a pair (x[0], x[1]) whose second member may be None;
\* rank lists x.dim() of each tensor there is
XInputs ==
    {[kind |-> "Tensor", rank |-> <<r>>] : r \in Ranks}
    \cup {[kind |-> "pair", rank |-> <<r0>>] : r0 \in Ranks}
    \cup {[kind |-> "pair", rank |-> <<r0, r1>>] : r0 \in Ranks, r1 \in Ranks}

\* return_attention_weights: None, True or False
RawInputs == {None, Some(TRUE), Some(FALSE)}

NoX == [kind |-> "none", rank |-> <<>>]

InCall(c) == cpc[c] \in {"entered", "projected", "messaged", "propagated", "read", "cleared"}

\* the coefficients caller c's current call computes in message()
OwnAlpha(c) == [computed_by |-> c]

\* the instance after GATConv.__init__ (self._alpha = None), two idle callers;
\* the graph part and the factory at rest
CallsInit ==
    /\ dropout \in {0, 150}
    /\ _alpha = None
    /\ cpc = [c \in Callers |-> "idle"]
    /\ x = [c \in Callers |-> NoX]
    /\ raw = [c \in Callers |-> None]
    /\ projected = [c \in Callers |-> FALSE]
    /\ local_alpha = [c \in Callers |-> None]
    /\ ret = [c \in Callers |-> None]
    /\ overlap = [c \in Callers |-> FALSE]
    /\ nrows = 1
    /\ adj = <<>>
    /\ pc = "start"
    /\ edge_index = <<>>
    /\ num_nodes = None
    /\ loops_on = FALSE
    /\ index = <<>>
    /\ alpha = <<>>
    /\ prev_edges = <<>>
    /\ nlayer = 1
    /\ nhid = 1
    /\ nembed = 1
    /\ fpc = "start"
    /\ model = None

\* a step of caller c is seen by the other caller's call, if one is under way
Seen(c) == [overlap EXCEPT ![Other(c)] = @ \/ InCall(Other(c))]

\* forward() is entered with its arguments bound (lines 109-123)
Call(c) ==
    /\ ~InCall(c)
    /\ \E xin \in XInputs, rin \in RawInputs :
          /\ x' = [x EXCEPT ![c] = xin]
          /\ raw' = [raw EXCEPT ![c] = rin]
    /\ cpc' = [cpc EXCEPT ![c] = "entered"]
    /\ projected' = [projected EXCEPT ![c] = FALSE]
    /\ local_alpha' = [local_alpha EXCEPT ![c] = None]
    /\ ret' = [ret EXCEPT ![c] = None]
    /\ overlap' = [Seen(c) EXCEPT ![c] = InCall(Other(c))]
    /\ UNCHANGED <<gvars, fvars, dropout, _alpha>>

\* the rank asserted before the projection: x.dim() of a Tensor, x[0].dim()
\* of a pair (lines 126 and 135); x[1] is projected unasserted (line 139)
AssertedRank(xin) == xin.rank[1]

\* lines 125-143: the assert on the rank, then the projections
Project(c) ==
    /\ cpc[c] = "entered"
    /\ IF AssertedRank(x[c]) = 2
       THEN /\ cpc' = [cpc EXCEPT ![c] = "projected"]
            /\ projected' = [projected EXCEPT ![c] = TRUE]
       ELSE /\ cpc' = [cpc EXCEPT ![c] = "raised"]
            /\ UNCHANGED projected
    /\ overlap' = Seen(c)
    /\ UNCHANGED <<gvars, fvars, dropout, _alpha, x, raw, local_alpha, ret>>

\* a message() that leaves self._alpha as it was
StoreAlpha_skip(cache, a) == cache

\* line 186: self._alpha = alpha
StoreAlpha(cache, a) == Some(a)

\* lines 145-158 up to line 186 of message(): self-loops, propagate, softmax;
\* the features have been consumed by the projection and are dropped here
Message(c) ==
    /\ cpc[c] = "projected"
    /\ _alpha' = StoreAlpha(_alpha, OwnAlpha(c))
    /\ cpc' = [cpc EXCEPT ![c] = "messaged"]
    /\ x' = [x EXCEPT ![c] = NoX]
    /\ overlap' = Seen(c)
    /\ UNCHANGED <<gvars, fvars, dropout, raw, projected, local_alpha, ret>>

\* F.dropout raises ValueError unless 0 <= p <= 1
DropoutOk(p) == 0 <= p /\ p <= 100

\* lines 187-188 and the rest of propagate(): F.dropout, aggregation
Dropout(c) ==
    /\ cpc[c] = "messaged"
    /\ cpc' = [cpc EXCEPT ![c] = IF DropoutOk(dropout) THEN "propagated" ELSE "raised"]
    /\ overlap' = Seen(c)
    /\ UNCHANGED <<gvars, fvars, dropout, _alpha, x, raw, projected, local_alpha, ret>>

\* line 160: alpha = self._alpha
ReadAlpha(c) ==
    /\ cpc[c] = "propagated"
    /\ local_alpha' = [local_alpha EXCEPT ![c] = _alpha]
    /\ cpc' = [cpc EXCEPT ![c] = "read"]
    /\ overlap' = Seen(c)
    /\ UNCHANGED <<gvars, fvars, dropout, _alpha, x, raw, projected, ret>>

\* line 161: self._alpha = None
ClearAlpha(c) ==
    /\ cpc[c] = "read"
    /\ _alpha' = None
    /\ cpc' = [cpc EXCEPT ![c] = "cleared"]
    /\ overlap' = Seen(c)
    /\ UNCHANGED <<gvars, fvars, dropout, x, raw, projected, local_alpha, ret>>

\* line 171: isinstance(return_attention_weights, bool)
WantsAttention(r) == r # None

\* lines 163-178: the result; with the weights asked for, alpha is asserted
\* not None and returned beside edge_index, else edge_index alone
Return(c) ==
    /\ cpc[c] = "cleared"
    /\ IF WantsAttention(raw[c])
       THEN IF local_alpha[c] # None
            THEN /\ cpc' = [cpc EXCEPT ![c] = "returned"]
                 /\ ret' = [ret EXCEPT ![c] = [edges |-> TRUE, attention |-> local_alpha[c]]]
            ELSE /\ cpc' = [cpc EXCEPT ![c] = "raised"]
                 /\ UNCHANGED ret
       ELSE /\ cpc' = [cpc EXCEPT ![c] = "returned"]
            /\ ret' = [ret EXCEPT ![c] = [edges |-> TRUE, attention |-> None]]
    /\ overlap' = Seen(c)
    /\ UNCHANGED <<gvars, fvars, dropout, _alpha, x, raw, projected, local_alpha>>

CallsNext ==
    \/ \E c \in Callers : Call(c)
    \/ \E c \in Callers : Project(c)
    \/ \E c \in Callers : Message(c)
    \/ \E c \in Callers : Dropout(c)
    \/ \E c \in Callers : ReadAlpha(c)
    \/ \E c \in Callers : ClearAlpha(c)
    \/ \E c \in Callers : Return(c)

SpecCalls == CallsInit /\ [][CallsNext]_vars

\* ------------------------------------------------------------- stacked models
\* GATConv.__init__: the attributes the stacked models rely on
GATConv(in_channels, out_channels, heads, concat) ==
    [in_channels |-> in_channels, out_channels |-> out_channels,
     heads |-> heads, concat |-> concat]

\* GATConv.__init__ with an int in_channels and bias: lin_l (which lin_r and
\* temp_weight alias), att_l, att_r, bias; name is the attribute path
ConvParameters(name) ==
    {<<name, "lin_l.weight">>, <<name, "att_l">>, <<name, "att_r">>, <<name, "bias">>}

\* nn.Linear(in_features, 2)
LinearParameters(name) == {<<name, "weight">>, <<name, "bias">>}

\* width of a layer's output: heads * out_channels when concat (line 164),
\* out_channels when the heads are averaged (line 166)
OutWidth(conv) ==
    IF conv.concat THEN conv.heads * conv.out_channels ELSE conv.out_channels

\* num_head of StandGAT2 and StandGATX, of StandGATEncoder and StandGATClssifier
num_head_X == 4
num_head_Enc == 8
num_head_Cls == 8
nembed_default == 64

\* a head_dim that rounds up
HeadDim_ceil(n, heads) == (n + heads - 1) \div heads

\* head_dim = nhid // num_head
HeadDim(n, heads) == n \div heads

\* StandGAT1.__init__
StandGAT1(nfeat_, nhid_, nclass_) ==
    [variant |-> "StandGAT1", nhid |-> nhid_, heads |-> default_heads,
     convs |-> [conv1 |-> GATConv(nfeat_, nclass_, default_heads, TRUE)],
     chain |-> <<"conv1">>,
     linear |-> {},
     parameters |-> ConvParameters("conv1"),
     final |-> ConvParameters("conv1"),
     reg_params |-> Some({}),
     non_reg_params |-> Some(ConvParameters("conv1"))]

\* StandGAT2.__init__
StandGAT2(nfeat_, nhid_, nclass_) ==
    LET convs == [conv1 |-> GATConv(nfeat_, HeadDim(nhid_, num_head), num_head, TRUE),
                  conv2 |-> GATConv(nhid_, nclass_, conv2_heads, FALSE)]
    IN  [variant |-> "StandGAT2", nhid |-> nhid_, heads |-> num_head,
         convs |-> convs,
         chain |-> <<"conv1", "conv2">>,
         linear |-> {},
         parameters |-> ConvParameters("conv1") \cup ConvParameters("conv2"),
         final |-> ConvParameters("conv2"),
         reg_params |-> Some(ConvParameters("conv1")),
         non_reg_params |-> Some(ConvParameters("conv2"))]

\* the attribute names of the convx ModuleList: range(nlayer - 2)
ConvxNames(nlayer_) == [i \in 1 .. nlayer_ - 2 |-> "convx." \o ToString(i - 1)]

RECURSIVE UnionOver(_, _)
UnionOver(f, S) ==
    IF S = {} THEN {}
    ELSE LET k == CHOOSE k \in S : TRUE IN f[k] \cup UnionOver(f, S \ {k})

\* StandGATX.__init__
StandGATX(nfeat_, nhid_, nclass_, nlayer_) ==
    LET names == ConvxNames(nlayer_)
        mid   == GATConv(nhid_, HeadDim(nhid_, num_head_X), num_head_X, TRUE)
        convx_parameters ==
            UnionOver([i \in DOMAIN names |-> ConvParameters(names[i])], DOMAIN names)
    IN  [variant |-> "StandGATX", nhid |-> nhid_, heads |-> num_head_X,
         convs |-> [n \in {"conv1", "conv2"} \cup {names[i] : i \in DOMAIN names} |->
                      IF n = "conv1"
                      THEN GATConv(nfeat_, HeadDim(nhid_, num_head_X), num_head_X, TRUE)
                      ELSE IF n = "conv2"
                      THEN GATConv(nhid_, nclass_, default_heads, TRUE)
                      ELSE mid],
         chain |-> <<"conv1">> \o names \o <<"conv2">>,
         linear |-> {},
         parameters |-> ConvParameters("conv1") \cup ConvParameters("conv2")
                        \cup convx_parameters,
         final |-> ConvParameters("conv2"),
         reg_params |-> Some(ConvParameters("conv1") \cup convx_parameters),
         non_reg_params |-> Some(ConvParameters("conv2"))]

\* StandGATEncoder.__init__: conv2 is built and never run; no parameter groups
StandGATEncoder(nfeat_, nhid_, nembed_) ==
    [variant |-> "StandGATEncoder", nhid |-> nhid_, heads |-> num_head_Enc,
     convs |-> [conv1 |-> GATConv(nfeat_, HeadDim(nembed_, num_head_Enc), num_head_Enc, TRUE),
                conv2 |-> GATConv(nhid_, HeadDim(nembed_, num_head_Enc), num_head_Enc, TRUE)],
     chain |-> <<"conv1">>,
     linear |-> {},
     parameters |-> ConvParameters("conv1") \cup ConvParameters("conv2"),
     final |-> ConvParameters("conv1"),
     reg_params |-> None,
     non_reg_params |-> None]

\* StandGATClssifier.__init__: fakereal = nn.Linear(nhid, 2) reads conv1's
\* output in forward (line 316); no parameter groups
StandGATClssifier(nembed_, nhid_, nclass_) ==
    [variant |-> "StandGATClssifier", nhid |-> nhid_, heads |-> num_head_Cls,
     convs |-> [conv1 |-> GATConv(nembed_, HeadDim(nhid_, num_head_Cls), num_head_Cls, TRUE),
                conv2 |-> GATConv(nhid_, nclass_, conv2_heads, FALSE)],
     chain |-> <<"conv1", "conv2">>,
     linear |-> {[reads |-> "conv1", in_features |-> nhid_]},
     parameters |-> ConvParameters("conv1") \cup ConvParameters("conv2")
                    \cup LinearParameters("fakereal"),
     final |-> ConvParameters("conv2"),
     reg_params |-> None,
     non_reg_params |-> None]

\* create_gat: the local model is bound in one of four branches; return model
\* with model unbound raises UnboundLocalError
create_gat(nfeat_, nhid_, nclass_, nlayer_, nembed_) ==
    IF nlayer_ = 1 THEN [outcome |-> "returned", model |-> StandGAT1(nfeat_, nhid_, nclass_)]
    ELSE IF nlayer_ = 2 THEN [outcome |-> "returned", model |-> StandGAT2(nfeat_, nhid_, nclass_)]
    ELSE IF nlayer_ = 3 THEN [outcome |-> "returned", model |-> StandGATEncoder(nfeat_, nhid_, nembed_)]
    ELSE IF nlayer_ = 4 THEN [outcome |-> "returned", model |-> StandGATClssifier(nhid_, nembed_, nclass_)]
    ELSE [outcome |-> "raised", model |-> None]

\* ------------------------------------------------------------- SpecFactory
\* the arguments of a call; the graph part and the layer instance at rest
FactoryInit ==
    /\ nlayer \in 0 .. MaxLayer
    /\ nhid \in 1 .. MaxHid
    /\ nembed \in {nembed_default} \cup 1 .. MaxHid
    /\ fpc = "start"
    /\ model = None
    /\ nrows = 1
    /\ adj = <<>>
    /\ pc = "start"
    /\ edge_index = <<>>
    /\ num_nodes = None
    /\ loops_on = FALSE
    /\ index = <<>>
    /\ alpha = <<>>
    /\ prev_edges = <<>>
    /\ dropout = 0
    /\ _alpha = None
    /\ cpc = [c \in Callers |-> "idle"]
    /\ x = [c \in Callers |-> NoX]
    /\ raw = [c \in Callers |-> None]
    /\ projected = [c \in Callers |-> FALSE]
    /\ local_alpha = [c \in Callers |-> None]
    /\ ret = [c \in Callers |-> None]
    /\ overlap = [c \in Callers |-> FALSE]

\* model = create_gat(nfeat, nhid, nclass, dropout, nlayer, nembed)
CreateGat ==
    /\ fpc = "start"
    /\ LET r == create_gat(NFeat, nhid, NClass, nlayer, nembed)
       IN  /\ fpc' = r.outcome
           /\ model' = r.model
    /\ UNCHANGED <<nlayer, nhid, nembed, gvars, cvars>>

\* model = StandGATX(nfeat, nhid, nclass, dropout, nlayer), the N-layer
\* variant, which create_gat never builds
NewStandGATX ==
    /\ fpc = "start"
    /\ nlayer >= 2
    /\ fpc' = "returned"
    /\ model' = StandGATX(NFeat, nhid, NClass, nlayer)
    /\ UNCHANGED <<nlayer, nhid, nembed, gvars, cvars>>

FactoryNext == CreateGat \/ NewStandGATX

SpecFactory == FactoryInit /\ [][FactoryNext]_vars

\* ------------------------------------------------------------- properties of Spec
Count(ei, e) == Cardinality({k \in DOMAIN ei : ei[k] = e})
SelfLoopCount(ei) == Cardinality({k \in DOMAIN ei : ei[k][1] = ei[k][2]})

RECURSIVE Gcd(_, _)
Gcd(a, b) == IF b = 0 THEN a ELSE Gcd(b, a % b)

\* p + q of two fractions, in lowest terms
FracAdd(p, q) ==
    LET n == p[1] * q[2] + q[1] * p[2]
        d == p[2] * q[2]
        g == Gcd(n, d)
    IN  <<n \div g, d \div g>>

RECURSIVE FracSum(_, _)
\* the sum of the fractions f[k], k in S
FracSum(f, S) ==
    IF S = {} THEN <<0, 1>>
    ELSE LET k == CHOOSE k \in S : TRUE IN FracAdd(f[k], FracSum(f, S \ {k}))

\* the edges of the attention step's edge list that enter node i
Incoming(i) == {k \in DOMAIN edge_index : edge_index[k][2] = i}

\* the softmax group of node i: the positions message() was given index i for
Group(i) == {k \in DOMAIN index : index[k] = i}

AllNodes == 0 .. (IF MaxNodes >= PathNodes THEN MaxNodes ELSE PathNodes) - 1

\* C1: with self-loop adjustment on, the edge list handed to the attention
\* step holds exactly one self-loop (i, i) for every i < num_nodes, whatever
\* self-loops the input held, and no other self-loop; a second layer that
\* adjusts the first layer's adjusted list again keeps the self-loop count
\* and the edge count.
C1_ExactlyOneSelfLoop ==
    (pc # "start" /\ loops_on) =>
        /\ \A i \in 0 .. num_nodes[1] - 1 : Count(edge_index, <<i, i>>) = 1
        /\ SelfLoopCount(edge_index) = num_nodes[1]
        /\ pc = "conv2" =>
              /\ Len(edge_index) = Len(prev_edges)
              /\ SelfLoopCount(edge_index) = SelfLoopCount(prev_edges)

\* the second layer has run on an input that held one node's self-loop twice
C1_Witness ==
    /\ pc = "conv2"
    /\ loops_on
    /\ \E i \in 0 .. nrows - 1 : Count(adj, <<i, i>>) >= 2
    /\ \E i \in 0 .. nrows - 1 : Count(adj, <<i, i>>) = 0
    /\ SelfLoopCount(edge_index) = nrows

\* C2: for every node that an edge of the attention step's edge list enters
\* and every head, the coefficients message() stored, summed over the edges
\* entering the node (a duplicate edge is a term of its own), are exactly 1.
C2_AttentionSumsToOne ==
    pc # "start" =>
        /\ Len(alpha) = Len(edge_index)
        /\ \A i \in AllNodes :
              Incoming(i) # {} =>
                 \A h \in DOMAIN alpha[CHOOSE k \in Incoming(i) : TRUE] :
                    FracSum([k \in Incoming(i) |-> alpha[k][h]], Incoming(i)) = <<1, 1>>

\* a node entered by a duplicated edge and by an edge with another
\* coefficient, while another node has a group of its own
C2_Witness ==
    /\ pc # "start"
    /\ \E k, j, m \in DOMAIN edge_index :
          /\ k # j
          /\ edge_index[k] = edge_index[j]
          /\ edge_index[m][2] = edge_index[k][2]
          /\ alpha[m][1][1] * alpha[k][1][2] # alpha[k][1][1] * alpha[m][1][2]
    /\ \E i, j \in AllNodes : i # j /\ Incoming(i) # {} /\ Incoming(j) # {}

PathScenario ==
    /\ adj = PathEdges
    /\ nrows = PathNodes
    /\ pc = "direct"
    /\ loops_on

\* C9 as stated: the groups of nodes 0 and 3 hold 2 edges, those of nodes 1
\* and 2 hold 3 edges
C9_AsStated ==
    PathScenario =>
        /\ Cardinality(Group(0)) = 2
        /\ Cardinality(Group(3)) = 2
        /\ Cardinality(Group(1)) = 3
        /\ Cardinality(Group(2)) = 3

\* C9, amended: the edges are directed and grouped by destination, so node 0
\* (no incoming edge) has a group of 1 edge, its self-loop, which carries
\* all of its attention; nodes 1, 2 and 3 have groups of 2 edges each.
C9_PathGroups ==
    PathScenario =>
        /\ Len(index) = 2 * PathNodes - 1
        /\ Cardinality(Group(0)) = 1
        /\ \A i \in 1 .. 3 : Cardinality(Group(i)) = 2
        /\ \A k \in Group(0) : edge_index[k] = <<0, 0>> /\ alpha[k][1][1] = alpha[k][1][2]

C9_Witness ==
    /\ PathScenario
    /\ Len(alpha) = 2 * PathNodes - 1
    /\ \E k \in Group(1) : alpha[k][1][1] * 2 # alpha[k][1][2]

\* ------------------------------------------------------------- properties of SpecCalls
\* C3 as stated: whenever no forward call is under way on the instance,
\* self._alpha is None
C3_CacheClearedAtRest ==
    (\A c \in Callers : ~InCall(c)) => _alpha = None

\* C4 as stated: under every interleaving, the coefficients a call has read
\* from self._alpha are those of its own message step
C4_AsStated ==
    \A c \in Callers :
        cpc[c] \in {"read", "cleared"} => local_alpha[c] = Some(OwnAlpha(c))

\* C4, amended: a call during which no other call ran on the instance reads
\* the coefficients of its own message step from self._alpha, never None and
\* never those of another call, and it returns them when the weights were
\* asked for.
C4_SerializedCallsReadOwn ==
    \A c \in Callers :
        ~overlap[c] =>
            /\ cpc[c] \in {"read", "cleared"} => local_alpha[c] = Some(OwnAlpha(c))
            /\ (cpc[c] = "returned" /\ WantsAttention(raw[c])) =>
                  ret[c].attention = Some(OwnAlpha(c))
            /\ (cpc[c] = "raised" /\ projected[c]) => ~DropoutOk(dropout)

\* a call that ran alone, after the other caller's call had ended, has read
\* its own coefficients
C4_Witness ==
    \E c \in Callers :
        /\ cpc[c] = "read"
        /\ ~overlap[c]
        /\ cpc[Other(c)] = "returned"
        /\ ret[Other(c)] # None
        /\ local_alpha[c] = Some(OwnAlpha(c))

\* C5 as stated: a call that returns hands back the attention coefficients
\* exactly when return_attention_weights was True
C5_AttentionOnlyOnRequest ==
    \A c \in Callers :
        cpc[c] = "returned" =>
            (ret[c].attention # None <=> raw[c] = Some(TRUE))

BadRank(xin) == \E k \in DOMAIN xin.rank : xin.rank[k] # 2

\* C6 as stated: a call whose features hold a tensor that is not
\* 2-dimensional (x itself, or either member of a pair) gets no further than
\* the precondition: it runs no projection and no message step
C6_RankRejected ==
    \A c \in Callers :
        BadRank(x[c]) => (cpc[c] \in {"entered", "raised"} /\ ~projected[c])

\* ------------------------------------------------------------- properties of SpecFactory
\* C7 as stated: for a depth outside {1, 2, 3, 4} the call returns, handing
\* the caller an unset model and no variant
C7_UnsetModelReturned ==
    (fpc # "start" /\ nlayer \notin {1, 2, 3, 4}) =>
        (fpc = "returned" /\ model = None)

\* C8 as stated: every constructed variant exposes reg_params and
\* non_reg_params, disjoint, together all of its parameters, non_reg_params
\* the final layer's
C8_GroupsPartitionParameters ==
    (fpc = "returned" /\ model # None) =>
        /\ model.reg_params # None
        /\ model.non_reg_params # None
        /\ model.reg_params[1] \cap model.non_reg_params[1] = {}
        /\ model.reg_params[1] \cup model.non_reg_params[1] = model.parameters
        /\ model.non_reg_params[1] = model.final

\* every consumer of a concatenating layer's output is declared with that
\* output's width: the next layer of the chain, and a linear head
Composes(m) ==
    /\ \A k \in 1 .. Len(m.chain) - 1 :
          OutWidth(m.convs[m.chain[k]]) = m.convs[m.chain[k + 1]].in_channels
    /\ \A l \in m.linear : OutWidth(m.convs[l.reads]) = l.in_features

Stacked(m) == m.variant \in {"StandGAT2", "StandGATX", "StandGATClssifier"}

\* C10 as stated: for every positive nhid the layers of the 2-layer, N-layer
\* and classifier variants compose
C10_AsStated ==
    (fpc = "returned" /\ model # None /\ Stacked(model)) => Composes(model)

\* C10, amended: the layers of the 2-layer, N-layer and classifier variants
\* compose exactly when nhid is a multiple of the variant's head count (4,
\* 4 and 8); for any other nhid the first layer's output is narrower than
\* its consumers' declared input.
C10_ComposesIffDivisible ==
    (fpc = "returned" /\ model # None /\ Stacked(model)) =>
        /\ Composes(model) <=> model.nhid % model.heads = 0
        /\ OutWidth(model.convs.conv1) = model.heads * (model.nhid \div model.heads)
        /\ OutWidth(model.convs.conv1) <= model.nhid

\* a classifier of a width that is a multiple of 8 and more than 8
C10_Witness ==
    /\ fpc = "returned"
    /\ model # None
    /\ model.variant = "StandGATClssifier"
    /\ model.nhid = 2 * num_head_Cls
    /\ Composes(model)

====
